---------------------------- MODULE Spec2Model ----------------------------
(***************************************************************************)
(* A model of src/dashboards/kaizen_training_hub.py: the three static data *)
(* providers and render_kaizen_training_hub, the routine that composes     *)
(* them into a tabbed page through Streamlit display calls.                *)
(*                                                                         *)
(* A render is a walk of the program counter pc through the call sites of  *)
(* the function.  Every display call appends one record to out; every      *)
(* provider call and every display call may raise.  Long literal texts of  *)
(* the source are cut to their opening words (marked "...") and non-ASCII  *)
(* glyphs are replaced by their names; nothing in the code inspects them.  *)
(***************************************************************************)
EXTENDS Integers, Sequences, FiniteSets, TLC

VARIABLES
    ssm,                \* contents of the SessionStateManager handle passed by the host
    env,                \* what the three provider functions return in this process
    pc,                 \* position inside render_kaizen_training_hub
    kaizen_events,      \* local of render (line 229)
    training_materials, \* local of render (line 230)
    glossary,           \* local of render (line 231)
    df_events,          \* local of render (line 244): the sorted rows
    i,                  \* index of the current row / material / category
    j,                  \* index of the current term of the category
    k,                  \* index of the current call of an event block / of a term
    out,                \* display calls issued so far, in order
    log,                \* entries emitted to the module logger
    calls,              \* provider invocations so far, in order
    exc,                \* line of the call whose exception the except clause caught (0: none)
    escaped,            \* line of the call whose exception left render (0: none)
    raised,             \* lines of the calls that raised during this render, in order
    lists,              \* list objects built by provider calls: ref -> [kind, items]
    dicts,              \* dict objects built by provider calls: ref -> record
    returned,           \* what each provider call returned, as its caller saw it then
    mutations,          \* how many times a caller changed an object it was given
    selected,           \* the tab the user has open in the browser (line 234)
    pass,               \* which call of render by the host this is (1 or 2)
    first               \* what the host saw of its first call of render

locals == <<kaizen_events, training_materials, glossary, df_events>>

renderVars == <<ssm, env, pc, kaizen_events, training_materials, glossary,
                df_events, i, j, k, out, log, calls, exc, escaped, raised>>

heapVars == <<lists, dicts, returned, mutations>>

tabVars == <<selected, pass, first>>

vars == <<ssm, env, pc, kaizen_events, training_materials, glossary,
          df_events, i, j, k, out, log, calls, exc, escaped, raised,
          lists, dicts, returned, mutations, selected, pass, first>>

-----------------------------------------------------------------------------
(* Strings that the code compares: the date field.  A date is the sequence *)
(* of the code points of its text, and StrLess is Python's str.__lt__.     *)

Digit(n) == 48 + n

Dash == 45

\* the text "YYYY-MM-DD" of the date literals (lines 41, 58, 73, 86)
IsoDate(y, m, d) ==
    << Digit(y \div 1000), Digit((y \div 100) % 10), Digit((y \div 10) % 10), Digit(y % 10),
       Dash, Digit(m \div 10), Digit(m % 10),
       Dash, Digit(d \div 10), Digit(d % 10) >>

RECURSIVE StrLess(_, _)
StrLess(a, b) ==
    IF b = <<>> THEN FALSE
    ELSE IF a = <<>> THEN TRUE
    ELSE IF Head(a) # Head(b) THEN Head(a) < Head(b)
    ELSE StrLess(Tail(a), Tail(b))

-----------------------------------------------------------------------------
(* The providers' literals.                                                *)

get_overhauled_kaizen_data ==
    << [ id |-> "KZN-02", title |-> "SMED on Stamping Press P-101",
         site |-> "Andover, US", date |-> IsoDate(2025, 6, 15),
         problem_background |-> "The Stamping Press P-101 has an average changeover time of 55 minutes...",
         analysis_and_countermeasures |-> "- **Analysis:** A Gemba walk and video analysis...",
         quantified_results |-> "Reduced average changeover time from 55 minutes to 9 minutes...",
         key_insight |-> "The biggest gains came not from operators working faster..." ],
       [ id |-> "KZN-01", title |-> "5S Implementation in Main Assembly Cell",
         site |-> "Eindhoven, NL", date |-> IsoDate(2025, 5, 22),
         problem_background |-> "The Main Assembly cell was experiencing frequent micro-stoppages...",
         analysis_and_countermeasures |-> "- **Analysis:** A spaghetti diagram of operator movement...",
         quantified_results |-> "Eliminated 95% of 'searching' time...",
         key_insight |-> "A clean and organized workplace is not about aesthetics..." ],
       [ id |-> "KZN-04", title |-> "Invoice Processing Lead Time Reduction",
         site |-> "Corporate HQ", date |-> IsoDate(2025, 7, 20),
         problem_background |-> "The average lead time from invoice receipt to payment approval is 18 days...",
         analysis_and_countermeasures |-> "- **Analysis:** A detailed process map and swimlane diagram...",
         quantified_results |-> "Reduced average lead time from 18 days to 3.5 days...",
         key_insight |-> "Lean principles are not just for the factory floor..." ],
       [ id |-> "KZN-03", title |-> "Root Cause Analysis (RCA) of Intermittent Sensor Failures",
         site |-> "Shanghai, CN", date |-> IsoDate(2025, 7, 1),
         problem_background |-> "The final test stage for the Affiniti Ultrasound system...",
         analysis_and_countermeasures |-> "- **Analysis:** An Ishikawa (Fishbone) diagram was used...",
         quantified_results |-> "Reduced the specific 'Signal Lost' failure rate from 4% to 0.1%...",
         key_insight |-> "Technical problems are often symptoms of process or design flaws..." ] >>

get_overhauled_training_data ==
    << [ id |-> "TRN-101", title |-> "A3 Thinking: The Art of Problem Solving on a Single Page",
         type |-> "eLearning", duration_hr |-> "2.5",
         target_audience |-> "Engineers, Team Leads, Managers", link |-> "#", icon |-> "memo",
         description |-> "This module explores the Toyota Production System's powerful A3 methodology...",
         learning_objectives |->
            << "Understand the 7 sections of a standard A3 Report.",
               "Frame a problem statement effectively.",
               "Use the PDCA (Plan-Do-Check-Act) cycle within the A3 framework.",
               "Visually communicate root cause analysis and countermeasures." >>,
         recommended_reading |-> "'Managing to Learn' by John Shook" ],
       [ id |-> "TRN-102", title |-> "Statistical Process Control (SPC) Masterclass",
         type |-> "Workshop Slides", duration_hr |-> "8.0",
         target_audience |-> "Quality Engineers, Process Technicians", link |-> "#", icon |-> "bar chart",
         description |-> "A deep dive into the principles of Dr. W. Edwards Deming and Walter Shewhart...",
         learning_objectives |->
            << "Calculate control limits for I-MR, Xbar-R, and p-charts.",
               "Interpret control chart signals (e.g., Nelson Rules).",
               "Define and calculate process capability indices (Cp, Cpk).",
               "Understand the relationship between process control and process capability." >>,
         recommended_reading |-> "'Understanding Variation: The Key to Managing Chaos' by Donald J. Wheeler" ],
       [ id |-> "TRN-103", title |-> "Leading Kaizen Events: A Facilitator's Guide",
         type |-> "PDF Guide", duration_hr |-> "4.0",
         target_audience |-> "MBB, Black Belts, CI Leads", link |-> "#", icon |-> "handshake",
         description |-> "This guide provides a practical, step-by-step framework...",
         learning_objectives |->
            << "Develop a compelling Kaizen charter.",
               "Manage team dynamics and engage stakeholders.",
               "Facilitate brainstorming and root cause analysis sessions.",
               "Establish a 30-day follow-up plan to ensure sustainability." >>,
         recommended_reading |-> "'Kaizen: The Key to Japan's Competitive Success' by Masaaki Imai" ],
       [ id |-> "TRN-104", title |-> "Failure Mode and Effects Analysis (FMEA)",
         type |-> "eLearning", duration_hr |-> "3.0",
         target_audience |-> "Engineering, R&D, Quality", link |-> "#", icon |-> "shield",
         description |-> "Learn to proactively identify and mitigate risks in product and process design...",
         learning_objectives |->
            << "Distinguish between Design FMEAs and Process FMEAs.",
               "Calculate Risk Priority Numbers (RPN).",
               "Develop effective detection and prevention controls.",
               "Integrate FMEA into the product development lifecycle." >>,
         recommended_reading |-> "'The FMEA Pocket Handbook' by D. H. Stamatis" ],
       [ id |-> "TRN-105", title |-> "Value Stream Mapping (VSM)",
         type |-> "Workshop Slides", duration_hr |-> "6.0",
         target_audience |-> "Operations, CI Leads, Management", link |-> "#", icon |-> "water wave",
         description |-> "This workshop teaches you how to see the flow of value...",
         learning_objectives |->
            << "Identify a value stream and its product family.",
               "Calculate key metrics like Lead Time, Process Time, and Process Cycle Efficiency.",
               "Draw current-state and future-state maps using standard iconography.",
               "Develop a Kaizen-based implementation plan." >>,
         recommended_reading |-> "'Learning to See' by Mike Rother and John Shook" ] >>

\* a glossary record without / with the optional "formula" key
Term(t, d) == [ term |-> t, definition |-> d ]

TermF(t, d, f) == [ term |-> t, definition |-> d, formula |-> f ]

\* A dict keeps insertion order: the mapping is the sequence of its items.
get_glossary_content ==
    << [ category |-> "Lean Principles", terms |->
         << TermF("Takt Time", "The rate at which a finished product needs to be completed...",
                  "Takt\\ Time = \\frac{\\text{Available Production Time per Day}}{\\text{Customer Demand per Day}}"),
            Term("Gemba", "Japanese for 'the real place.'..."),
            Term("Kaizen", "A strategy of 'Continuous Improvement'..."),
            Term("Muda, Mura, Muri", "The '3 M's' of waste in the Toyota Production System..."),
            Term("Muda", "Japanese for 'waste.'..."),
            Term("Jidoka", "Autonomation or 'automation with a human touch.'..."),
            Term("Heijunka", "Production leveling..."),
            Term("Kanban", "A scheduling system for lean manufacturing..."),
            Term("Poka-Yoke", "A 'mistake-proofing' mechanism..."),
            Term("Value Stream Mapping (VSM)", "A flowchart method used to visualize..."),
            Term("5S", "A workplace organization method based on five Japanese words...") >> ],
       [ category |-> "Six Sigma Concepts", terms |->
         << Term("DMAIC", "The core data-driven improvement cycle..."),
            TermF("DPMO (Defects Per Million Opportunities)", "A key metric for process performance...",
                  "DPMO = \\frac{\\text{Number of Defects}}{\\text{Number of Units} \\times \\text{Opportunities per Unit}} \\times 1,000,000"),
            TermF("Process Capability (Cp)", "Measures the potential capability of a process...",
                  "C_p = \\frac{USL - LSL}{6\\sigma}"),
            TermF("Process Capability (Cpk)", "Measures the actual capability of a process...",
                  "C_{pk} = \\min\\left(\\frac{USL - \\mu}{3\\sigma}, \\frac{\\mu - LSL}{3\\sigma}\\right)"),
            Term("COPQ (Cost of Poor Quality)", "The total financial loss incurred..."),
            Term("Voice of the Customer (VOC)", "The process of capturing customer expectations..."),
            TermF("Rolled Throughput Yield (RTY)", "The probability that a multi-step process...",
                  "RTY = FTY_1 \\times FTY_2 \\times \\dots \\times FTY_n") >> ],
       [ category |-> "Statistical & Analytical Methods", terms |->
         << TermF("Control Chart Limits", "The horizontal lines on a control chart (UCL/LCL)...",
                  "UCL/LCL = \\mu \\pm 3\\sigma"),
            Term("Hypothesis Testing", "A formal statistical procedure..."),
            Term("p-value", "The probability of obtaining test results at least as extreme..."),
            Term("ANOVA (Analysis of Variance)", "A statistical test used to determine..."),
            Term("Confidence Interval", "A range of values, derived from sample statistics..."),
            Term("Gage R&R (Repeatability & Reproducibility)", "A statistical study to evaluate the precision..."),
            Term("Regression Analysis", "A set of statistical processes for estimating the relationships..."),
            Term("Design of Experiments (DOE)", "A systematic method to determine the relationship...") >> ],
       [ category |-> "AI/ML for Operations", terms |->
         << Term("Supervised Learning", "A type of machine learning where the model learns from data..."),
            Term("Unsupervised Learning", "A type of machine learning where the model works on its own..."),
            Term("Isolation Forest", "An unsupervised algorithm excellent for anomaly detection..."),
            Term("Random Forest", "A powerful supervised learning algorithm..."),
            Term("SHAP (SHapley Additive exPlanations)", "A game-theoretic approach...") >> ] >>

-----------------------------------------------------------------------------
(* What a provider may return when another one stands in its place (a      *)
(* test double, a later data source).  The model bounds these inputs.      *)

MaxEvents == 2

MaxMaterials == 2

MaxObjectives == 2

MaxCategories == 2

DateSet == { IsoDate(2024, 12, 31), IsoDate(2025, 1, 9), IsoDate(2025, 1, 10) }

GenIds == << "EVT-1", "EVT-2", "EVT-3", "EVT-4" >>

MkEvent(n, d) ==
    [ id |-> GenIds[n], title |-> "Sample event", site |-> "Site", date |-> d,
      problem_background |-> "background", analysis_and_countermeasures |-> "analysis",
      quantified_results |-> "results", key_insight |-> "insight" ]

EventInputs ==
    { get_overhauled_kaizen_data } \cup
    UNION { { [ n \in 1..len |-> MkEvent(n, ds[n]) ] : ds \in [1..len -> DateSet] }
            : len \in 0..MaxEvents }

GenTrainingIds == << "GEN-1", "GEN-2", "GEN-3", "GEN-4" >>

GenObjectives == << "objective 1", "objective 2", "objective 3", "objective 4" >>

MkMaterial(n, c) ==
    [ id |-> GenTrainingIds[n], title |-> "Sample material", type |-> "PDF Guide",
      duration_hr |-> "1.0", target_audience |-> "All", link |-> "#", icon |-> "book",
      description |-> "description",
      learning_objectives |-> SubSeq(GenObjectives, 1, c),
      recommended_reading |-> "reading" ]

TrainingInputs ==
    { get_overhauled_training_data } \cup
    UNION { { [ n \in 1..len |-> MkMaterial(n, cs[n]) ] : cs \in [1..len -> 0..MaxObjectives] }
            : len \in 0..MaxMaterials }

CategoryNames == { "Lean Principles", "Six Sigma Concepts", "AI/ML for Operations" }

PlainTerm == Term("Plain", "a term without a formula")

FormulaTerm == TermF("Formula", "a term with a formula", "y = f(x)")

TermLists == { <<>>, << FormulaTerm >>, << PlainTerm, FormulaTerm >> }

\* the keys of a dict are distinct
GlossaryInputs ==
    { get_glossary_content } \cup
    UNION { { [ n \in 1..len |-> [ category |-> cs[n], terms |-> ts[n] ] ]
              : cs \in { c \in [1..len -> CategoryNames] :
                           \A a, b \in 1..len : a # b => c[a] # c[b] },
                ts \in [1..len -> TermLists] }
            : len \in 0..MaxCategories }

\* one provider is replaced at a time; the other two are the module's own
Environments ==
    { [ kaizen |-> e, training |-> get_overhauled_training_data,
        glossary |-> get_glossary_content ] : e \in EventInputs } \cup
    { [ kaizen |-> get_overhauled_kaizen_data, training |-> t,
        glossary |-> get_glossary_content ] : t \in TrainingInputs } \cup
    { [ kaizen |-> get_overhauled_kaizen_data, training |-> get_overhauled_training_data,
        glossary |-> g ] : g \in GlossaryInputs }

SsmStates == { "empty session", "loaded session" }

\* line 234: the three containers st.tabs returns, by the name the code gives them
TabNames == { "events_tab", "training_tab", "glossary_tab" }

\* short provider outputs for the renders that are compared call against call
TabEvents ==
    { <<>>,
      << MkEvent(1, IsoDate(2025, 1, 9)) >>,
      << MkEvent(1, IsoDate(2025, 1, 9)), MkEvent(2, IsoDate(2025, 1, 9)) >>,
      << MkEvent(1, IsoDate(2024, 12, 31)), MkEvent(2, IsoDate(2025, 1, 10)) >> }

TabTraining == << MkMaterial(1, 1) >>

TabGlossary == << [ category |-> "Lean Principles", terms |-> << FormulaTerm >> ] >>

TabEnvironments ==
    { [ kaizen |-> e, training |-> TabTraining, glossary |-> TabGlossary ] : e \in TabEvents } \cup
    { [ kaizen |-> <<>>, training |-> <<>>, glossary |-> TabGlossary ] }

-----------------------------------------------------------------------------
(* pandas: DataFrame(rows).sort_values(by='date', ascending=False).  The   *)
(* result holds the same rows, no row before one with a greater date; the  *)
(* default sort kind is not stable, so rows with equal dates may come out  *)
(* in any order.                                                           *)

Perms(n) == { p \in [1..n -> 1..n] : \A a, b \in 1..n : a # b => p[a] # p[b] }

sort_values_ascending(rows) ==
    { [ n \in 1..Len(rows) |-> rows[p[n]] ] :
        p \in { q \in Perms(Len(rows)) :
                  \A a \in 1..(Len(rows) - 1) :
                      ~ StrLess(rows[q[a + 1]].date, rows[q[a]].date) } }

\* the sorted frame cut to its first row (.head(1))
sort_values_head(rows) ==
    { << rows[p] >> :
        p \in { q \in 1..Len(rows) : \A a \in 1..Len(rows) : ~ StrLess(rows[q].date, rows[a].date) } }

sort_values(rows) ==
    { [ n \in 1..Len(rows) |-> rows[p[n]] ] :
        p \in { q \in Perms(Len(rows)) :
                  \A a \in 1..(Len(rows) - 1) :
                      ~ StrLess(rows[q[a]].date, rows[q[a + 1]].date) } }

-----------------------------------------------------------------------------
(* Display calls.  A call is recorded with the source line that issues it, *)
(* the Streamlit function, the with-blocks around it, its text (an         *)
(* f-string is its template followed by the values put into it) and its    *)
(* keyword arguments.                                                      *)

NoKw == <<>>

Call(line, op, within, text, kw) ==
    [ line |-> line, op |-> op, within |-> within, text |-> text, kw |-> kw ]

HeaderCall ==
    Call(218, "header", <<>>, << "Continuous Improvement & Knowledge Hub" >>, NoKw)

IntroCall ==
    Call(219, "markdown", <<>>, << "Welcome to the central nervous system of our learning organization..." >>, NoKw)

InfoCall ==
    Call(233, "info", <<>>, << "Select a tab to review the A3 reports from past Kaizen events..." >>,
         [ icon |-> "brain" ])

TabsCall ==
    Call(234, "tabs", <<>>,
         << "**Kaizen Event A3 Log**", "**Training & Development Library**",
            "**Methodologies & Terminology Glossary**" >>, NoKw)

EventsSubheaderCall ==
    Call(238, "subheader", << "events_tab" >>,
         << "Implementing Kaizen: A Chronicle of Realized Improvements" >>, NoKw)

EventsIntroCall ==
    Call(239, "markdown", << "events_tab" >>,
         << "Each event below is a testament to a team's dedication..." >>, NoKw)

EventsWarningCall ==
    Call(242, "warning", << "events_tab" >>,
         << "No Kaizen events have been logged in the data model." >>, NoKw)

InBlock == << "events_tab", "container" >>

\* line 252 with one key for all buttons
ButtonKeyWithoutId(event) == << "report", "" >>

\* line 252: key=f"report_{event['id']}"
ButtonKey(event) == << "report_{id}", event.id >>

\* lines 246-267: the calls of one event block, in statement order
EventBlock(event) ==
    << Call(246, "container", << "events_tab" >>, <<>>, [ border |-> TRUE ]),
       Call(247, "columns", InBlock, <<>>, [ spec |-> << 3, 1 >> ]),
       Call(249, "markdown", InBlock \o << "col1" >>, << "#### {title}", event.title >>, NoKw),
       Call(250, "caption", InBlock \o << "col1" >>,
            << "**A3 ID:** {id} | **Site:** {site} | **Completion Date:** {date}",
               event.id, event.site, event.date >>, NoKw),
       Call(252, "button", InBlock \o << "col2" >>, << "View Full A3 Report" >>,
            [ key |-> ButtonKey(event), type |-> "primary", disabled |-> TRUE,
              use_container_width |-> TRUE,
              help |-> "Full PDF report not available in this demo." ]),
       Call(254, "markdown", InBlock, << "**Problem Background:**" >>, NoKw),
       Call(255, "markdown", InBlock, << "> {problem_background}", event.problem_background >>, NoKw),
       Call(257, "expander", InBlock, << "**View Detailed Analysis & Countermeasures**" >>, NoKw),
       Call(258, "markdown", InBlock \o << "expander" >>,
            << "{analysis_and_countermeasures}", event.analysis_and_countermeasures >>, NoKw),
       Call(259, "caption", InBlock \o << "expander" >>,
            << "_Detailed schematics, raw data, and financial models are redacted from this view and available in the full A3 report._" >>,
            NoKw),
       Call(261, "markdown", InBlock, << "**Quantified Results:**" >>, NoKw),
       Call(262, "success", InBlock, << "{quantified_results}", event.quantified_results >>,
            [ icon |-> "light bulb" ]),
       Call(264, "markdown", InBlock, << "**Key Insight / Lesson Learned:**" >>, NoKw),
       Call(265, "info", InBlock, << "{key_insight}", event.key_insight >>,
            [ icon |-> "microscope" ]),
       Call(267, "write", << "events_tab" >>, << "" >>, NoKw) >>

TrainingSubheaderCall ==
    Call(271, "subheader", << "training_tab" >>,
         << "Empowering Excellence Through Education" >>, NoKw)

TrainingIntroCall ==
    Call(272, "markdown", << "training_tab" >>,
         << "A commitment to quality begins with a commitment to learning..." >>, NoKw)

TrainingWarningCall ==
    Call(275, "warning", << "training_tab" >>,
         << "No training materials are available in the data model." >>, NoKw)

\* line 293 with the comprehension stopping one objective early
ObjectiveItemsTruncated(objectives) ==
    [ n \in 1..(Len(objectives) - 1) |-> << "<li>{obj}</li>", objectives[n] >> ]

\* line 293: ''.join([f"<li>{obj}</li>" for obj in material['learning_objectives']])
ObjectiveItems(objectives) ==
    [ n \in 1..Len(objectives) |-> << "<li>{obj}</li>", objectives[n] >> ]

\* lines 279-300: the card of one material; text is the markup's template
\* followed by the values in the order the template names them
TrainingCard(material) ==
    Call(279, "markdown", << "training_tab" >>,
         << "<div ...>{icon} {title} {type} {duration_hr} {target_audience} {description} <ul>{objectives}</ul> {recommended_reading} <a href={link}>Launch Module</a></div>",
            material.icon, material.title, material.type, material.duration_hr,
            material.target_audience, material.description,
            ObjectiveItems(material.learning_objectives),
            material.recommended_reading, material.link >>,
         [ unsafe_allow_html |-> TRUE ])

GlossarySubheaderCall ==
    Call(303, "subheader", << "glossary_tab" >>,
         << "The Common Language of Continuous Improvement" >>, NoKw)

GlossaryIntroCall ==
    Call(304, "markdown", << "glossary_tab" >>,
         << "Use this dictionary to understand the key terms, concepts, and methodologies..." >>, NoKw)

\* line 307 with the name misspelt
ExpandedMisspelt(category) == category = "Lean principles"

\* line 307: expanded=(category == "Lean Principles")
Expanded(category) == category = "Lean Principles"

CategoryExpander(category) ==
    Call(307, "expander", << "glossary_tab" >>, << "**{category}**", category >>,
         [ expanded |-> Expanded(category) ])

InCategory == << "glossary_tab", "expander" >>

\* line 311 testing a key no record has
HasFormulaNever(item) == "latex" \in DOMAIN item

\* line 311: if 'formula' in item
HasFormula(item) == "formula" \in DOMAIN item

\* lines 309-313: the calls of one term, in statement order
TermCalls(item) ==
    << Call(309, "markdown", InCategory, << "**{term}**", item.term >>, NoKw),
       Call(310, "markdown", InCategory, << "> {definition}", item.definition >>, NoKw) >>
    \o (IF HasFormula(item)
        THEN << Call(312, "latex", InCategory, << item.formula >>, NoKw) >>
        ELSE <<>>)
    \o << Call(313, "write", InCategory, << "" >>, NoKw) >>

\* line 316: the banner embeds str(e); the model names e by the line that raised it
ErrorCall(e) ==
    Call(316, "error", <<>>,
         << "An error occurred while rendering the Kaizen & Training Hub: {e}", e >>, NoKw)

\* line 317
LogEntry(e) ==
    [ level |-> "ERROR", text |-> << "Failed to render kaizen and training hub: {e}", e >>,
      exc_info |-> TRUE ]

-----------------------------------------------------------------------------
(* render_kaizen_training_hub(ssm), lines 216-317.  Init is the state at   *)
(* entry: the host has passed its handle, nothing is displayed yet.        *)

Init ==
    /\ ssm \in SsmStates
    /\ env \in Environments
    /\ pc = "header"
    /\ kaizen_events = <<>>
    /\ training_materials = <<>>
    /\ glossary = <<>>
    /\ df_events = <<>>
    /\ i = 0
    /\ j = 0
    /\ k = 0
    /\ out = <<>>
    /\ log = <<>>
    /\ calls = <<>>
    /\ exc = 0
    /\ escaped = 0
    /\ raised = <<>>
    /\ lists = <<>>
    /\ dicts = <<>>
    /\ returned = <<>>
    /\ mutations = 0
    /\ selected = "events_tab"
    /\ pass = 1
    /\ first = <<>>

\* a display call before the try block (lines 218-222): its exception leaves render
Unguarded(c, next) ==
    \/ /\ out' = Append(out, c)
       /\ pc' = next
       /\ UNCHANGED <<exc, escaped, raised>>
    \/ /\ escaped' = c.line
       /\ raised' = Append(raised, c.line)
       /\ pc' = "done"
       /\ UNCHANGED <<out, exc>>

\* a display call inside the try block (lines 224-313): its exception is caught at 315
Guarded(c, next) ==
    \/ /\ out' = Append(out, c)
       /\ pc' = next
       /\ UNCHANGED <<exc, escaped, raised>>
    \/ /\ exc' = c.line
       /\ raised' = Append(raised, c.line)
       /\ pc' = "except"
       /\ UNCHANGED <<out, escaped>>

\* line 218
Header ==
    /\ pc = "header"
    /\ Unguarded(HeaderCall, "intro")
    /\ UNCHANGED <<ssm, env, locals, i, j, k, log, calls, heapVars, tabVars>>

\* lines 219-222
Intro ==
    /\ pc = "intro"
    /\ Unguarded(IntroCall, "load_kaizen")
    /\ UNCHANGED <<ssm, env, locals, i, j, k, log, calls, heapVars, tabVars>>

\* line 229 moved before the try statement: the provider's exception leaves render
LoadKaizenUnguarded ==
    /\ pc = "load_kaizen"
    /\ calls' = Append(calls, "get_overhauled_kaizen_data")
    /\ \/ /\ kaizen_events' = env.kaizen
          /\ pc' = "load_training"
          /\ UNCHANGED <<escaped, raised>>
       \/ /\ escaped' = 229
          /\ raised' = Append(raised, 229)
          /\ pc' = "done"
          /\ UNCHANGED kaizen_events
    /\ UNCHANGED <<ssm, env, training_materials, glossary, df_events, i, j, k,
                   out, log, exc, heapVars, tabVars>>

\* line 229
LoadKaizen ==
    /\ pc = "load_kaizen"
    /\ calls' = Append(calls, "get_overhauled_kaizen_data")
    /\ \/ /\ kaizen_events' = env.kaizen
          /\ pc' = "load_training"
          /\ UNCHANGED <<exc, raised>>
       \/ /\ exc' = 229
          /\ raised' = Append(raised, 229)
          /\ pc' = "except"
          /\ UNCHANGED kaizen_events
    /\ UNCHANGED <<ssm, env, training_materials, glossary, df_events, i, j, k,
                   out, log, escaped, heapVars, tabVars>>

\* line 230 left out: the materials are there without the provider being called
LoadTrainingNotCalled ==
    /\ pc = "load_training"
    /\ training_materials' = env.training
    /\ pc' = "load_glossary"
    /\ UNCHANGED <<ssm, env, kaizen_events, glossary, df_events, i, j, k,
                   out, log, calls, exc, escaped, raised, heapVars, tabVars>>

\* line 230
LoadTraining ==
    /\ pc = "load_training"
    /\ calls' = Append(calls, "get_overhauled_training_data")
    /\ \/ /\ training_materials' = env.training
          /\ pc' = "load_glossary"
          /\ UNCHANGED <<exc, raised>>
       \/ /\ exc' = 230
          /\ raised' = Append(raised, 230)
          /\ pc' = "except"
          /\ UNCHANGED training_materials
    /\ UNCHANGED <<ssm, env, kaizen_events, glossary, df_events, i, j, k,
                   out, log, escaped, heapVars, tabVars>>

\* line 231 keeping the loaded data in the session handle
LoadGlossaryIntoSsm ==
    /\ pc = "load_glossary"
    /\ calls' = Append(calls, "get_glossary_content")
    /\ \/ /\ glossary' = env.glossary
          /\ ssm' = "loaded session"
          /\ pc' = "info"
          /\ UNCHANGED <<exc, raised>>
       \/ /\ exc' = 231
          /\ raised' = Append(raised, 231)
          /\ pc' = "except"
          /\ UNCHANGED <<glossary, ssm>>
    /\ UNCHANGED <<env, kaizen_events, training_materials, df_events, i, j, k,
                   out, log, escaped, heapVars, tabVars>>

\* line 231
LoadGlossary ==
    /\ pc = "load_glossary"
    /\ calls' = Append(calls, "get_glossary_content")
    /\ \/ /\ glossary' = env.glossary
          /\ pc' = "info"
          /\ UNCHANGED <<exc, raised>>
       \/ /\ exc' = 231
          /\ raised' = Append(raised, 231)
          /\ pc' = "except"
          /\ UNCHANGED glossary
    /\ UNCHANGED <<ssm, env, kaizen_events, training_materials, df_events, i, j, k,
                   out, log, escaped, heapVars, tabVars>>

\* line 233
Info ==
    /\ pc = "info"
    /\ Guarded(InfoCall, "tabs")
    /\ UNCHANGED <<ssm, env, locals, i, j, k, log, calls, heapVars, tabVars>>

\* line 234 with the page starting at the panel of the tab that is open
TabsFromSelected ==
    /\ pc = "tabs"
    /\ Guarded(TabsCall,
               CASE selected = "events_tab" -> "events_subheader"
                 [] selected = "training_tab" -> "training_subheader"
                 [] selected = "glossary_tab" -> "glossary_subheader")
    /\ UNCHANGED <<ssm, env, locals, i, j, k, log, calls, heapVars, tabVars>>

\* line 234
Tabs ==
    /\ pc = "tabs"
    /\ Guarded(TabsCall, "events_subheader")
    /\ UNCHANGED <<ssm, env, locals, i, j, k, log, calls, heapVars, tabVars>>

\* lines 237-238
EventsSubheader ==
    /\ pc = "events_subheader"
    /\ Guarded(EventsSubheaderCall, "events_intro")
    /\ UNCHANGED <<ssm, env, locals, i, j, k, log, calls, heapVars, tabVars>>

\* lines 239-241: after the text, the test "if not kaizen_events"
EventsIntro ==
    /\ pc = "events_intro"
    /\ Guarded(EventsIntroCall,
               IF kaizen_events = <<>> THEN "events_warning" ELSE "events_sort")
    /\ UNCHANGED <<ssm, env, locals, i, j, k, log, calls, heapVars, tabVars>>

\* line 242
EventsWarning ==
    /\ pc = "events_warning"
    /\ Guarded(EventsWarningCall, "training_subheader")
    /\ UNCHANGED <<ssm, env, locals, i, j, k, log, calls, heapVars, tabVars>>

\* lines 244-245 without the sort_values call: the rows keep the provider's order
EventsSortSkipped ==
    /\ pc = "events_sort"
    /\ df_events' = kaizen_events
    /\ i' = 1
    /\ k' = 1
    /\ pc' = "event_block"
    /\ UNCHANGED <<ssm, env, kaizen_events, training_materials, glossary, j,
                   out, log, calls, exc, escaped, raised, heapVars, tabVars>>

\* lines 244-245: the frame is sorted and iteration starts at its first row
EventsSort ==
    /\ pc = "events_sort"
    /\ df_events' \in sort_values(kaizen_events)
    /\ i' = 1
    /\ k' = 1
    /\ pc' = "event_block"
    /\ UNCHANGED <<ssm, env, kaizen_events, training_materials, glossary, j,
                   out, log, calls, exc, escaped, raised, heapVars, tabVars>>

\* lines 245-267 with the statements of col2 (line 252) before those of col1
\* (lines 249-250): the button comes before the title and the metadata line
EventBlockCallButtonFirst ==
    /\ pc = "event_block"
    /\ LET block == EventBlock(df_events[i])
           c == block[CASE k = 3 -> 5 [] k = 4 -> 3 [] k = 5 -> 4 [] OTHER -> k]
       IN  \/ /\ out' = Append(out, c)
              /\ IF k < Len(block)
                 THEN /\ k' = k + 1
                      /\ UNCHANGED <<i, pc>>
                 ELSE IF i < Len(df_events)
                 THEN /\ i' = i + 1
                      /\ k' = 1
                      /\ UNCHANGED pc
                 ELSE /\ i' = 0
                      /\ k' = 0
                      /\ pc' = "training_subheader"
              /\ UNCHANGED <<exc, escaped, raised>>
           \/ /\ exc' = c.line
              /\ raised' = Append(raised, c.line)
              /\ pc' = "except"
              /\ UNCHANGED <<out, escaped, i, k>>
    /\ UNCHANGED <<ssm, env, locals, j, log, calls, heapVars, tabVars>>

\* lines 245-267: the next call of the block of row i; after the last call of
\* the last row the with-block of the tab ends
EventBlockCall ==
    /\ pc = "event_block"
    /\ LET block == EventBlock(df_events[i])
           c == block[k]
       IN  \/ /\ out' = Append(out, c)
              /\ IF k < Len(block)
                 THEN /\ k' = k + 1
                      /\ UNCHANGED <<i, pc>>
                 ELSE IF i < Len(df_events)
                 THEN /\ i' = i + 1
                      /\ k' = 1
                      /\ UNCHANGED pc
                 ELSE /\ i' = 0
                      /\ k' = 0
                      /\ pc' = "training_subheader"
              /\ UNCHANGED <<exc, escaped, raised>>
           \/ /\ exc' = c.line
              /\ raised' = Append(raised, c.line)
              /\ pc' = "except"
              /\ UNCHANGED <<out, escaped, i, k>>
    /\ UNCHANGED <<ssm, env, locals, j, log, calls, heapVars, tabVars>>

\* lines 270-271
TrainingSubheader ==
    /\ pc = "training_subheader"
    /\ Guarded(TrainingSubheaderCall, "training_intro")
    /\ UNCHANGED <<ssm, env, locals, i, j, k, log, calls, heapVars, tabVars>>

\* lines 272-274: after the text, the test "if not training_materials"
TrainingIntro ==
    /\ pc = "training_intro"
    /\ Guarded(TrainingIntroCall,
               IF training_materials = <<>> THEN "training_warning" ELSE "training_frame")
    /\ UNCHANGED <<ssm, env, locals, i, j, k, log, calls, heapVars, tabVars>>

\* line 275
TrainingWarning ==
    /\ pc = "training_warning"
    /\ Guarded(TrainingWarningCall, "glossary_subheader")
    /\ UNCHANGED <<ssm, env, locals, i, j, k, log, calls, heapVars, tabVars>>

\* lines 277-278: DataFrame(training_materials) keeps the rows in list order
TrainingFrame ==
    /\ pc = "training_frame"
    /\ i' = 1
    /\ pc' = "training_card"
    /\ UNCHANGED <<ssm, env, locals, j, k, out, log, calls, exc, escaped, raised, heapVars, tabVars>>

\* lines 278-300
TrainingCardCall ==
    /\ pc = "training_card"
    /\ LET c == TrainingCard(training_materials[i])
       IN  \/ /\ out' = Append(out, c)
              /\ IF i < Len(training_materials)
                 THEN /\ i' = i + 1
                      /\ UNCHANGED pc
                 ELSE /\ i' = 0
                      /\ pc' = "glossary_subheader"
              /\ UNCHANGED <<exc, escaped, raised>>
           \/ /\ exc' = c.line
              /\ raised' = Append(raised, c.line)
              /\ pc' = "except"
              /\ UNCHANGED <<out, escaped, i>>
    /\ UNCHANGED <<ssm, env, locals, j, k, log, calls, heapVars, tabVars>>

\* lines 302-303
GlossarySubheader ==
    /\ pc = "glossary_subheader"
    /\ Guarded(GlossarySubheaderCall, "glossary_intro")
    /\ UNCHANGED <<ssm, env, locals, i, j, k, log, calls, heapVars, tabVars>>

\* lines 304-306: after the text the loop over glossary.items() starts; over
\* an empty mapping it ends at once and render returns
GlossaryIntro ==
    /\ pc = "glossary_intro"
    /\ \/ /\ out' = Append(out, GlossaryIntroCall)
          /\ IF glossary = <<>>
             THEN /\ pc' = "done"
                  /\ UNCHANGED i
             ELSE /\ pc' = "glossary_expander"
                  /\ i' = 1
          /\ UNCHANGED <<exc, escaped, raised>>
       \/ /\ exc' = GlossaryIntroCall.line
          /\ raised' = Append(raised, GlossaryIntroCall.line)
          /\ pc' = "except"
          /\ UNCHANGED <<out, escaped, i>>
    /\ UNCHANGED <<ssm, env, locals, j, k, log, calls, heapVars, tabVars>>

\* where the loops of lines 306-313 go after the last term of category i
AfterCategory ==
    IF i < Len(glossary)
    THEN /\ i' = i + 1
         /\ j' = 0
         /\ k' = 0
         /\ pc' = "glossary_expander"
    ELSE /\ i' = 0
         /\ j' = 0
         /\ k' = 0
         /\ pc' = "done"

\* lines 306-308
GlossaryExpander ==
    /\ pc = "glossary_expander"
    /\ LET c == CategoryExpander(glossary[i].category)
       IN  \/ /\ out' = Append(out, c)
              /\ IF glossary[i].terms # <<>>
                 THEN /\ j' = 1
                      /\ k' = 1
                      /\ pc' = "glossary_term"
                      /\ UNCHANGED i
                 ELSE AfterCategory
              /\ UNCHANGED <<exc, escaped, raised>>
           \/ /\ exc' = c.line
              /\ raised' = Append(raised, c.line)
              /\ pc' = "except"
              /\ UNCHANGED <<out, escaped, i, j, k>>
    /\ UNCHANGED <<ssm, env, locals, log, calls, heapVars, tabVars>>

\* lines 308-313: the next call of term j of category i
GlossaryTermCall ==
    /\ pc = "glossary_term"
    /\ LET tc == TermCalls(glossary[i].terms[j])
           c == tc[k]
       IN  \/ /\ out' = Append(out, c)
              /\ IF k < Len(tc)
                 THEN /\ k' = k + 1
                      /\ UNCHANGED <<i, j, pc>>
                 ELSE IF j < Len(glossary[i].terms)
                 THEN /\ j' = j + 1
                      /\ k' = 1
                      /\ UNCHANGED <<i, pc>>
                 ELSE AfterCategory
              /\ UNCHANGED <<exc, escaped, raised>>
           \/ /\ exc' = c.line
              /\ raised' = Append(raised, c.line)
              /\ pc' = "except"
              /\ UNCHANGED <<out, escaped, i, j, k>>
    /\ UNCHANGED <<ssm, env, locals, log, calls, heapVars, tabVars>>

\* lines 315-316 with a banner that does not say what failed
ErrorBannerWithoutDescription ==
    /\ pc = "except"
    /\ \/ /\ out' = Append(out, ErrorCall(0))
          /\ pc' = "log"
          /\ UNCHANGED <<escaped, raised>>
       \/ /\ escaped' = 316
          /\ raised' = Append(raised, 316)
          /\ pc' = "done"
          /\ UNCHANGED out
    /\ UNCHANGED <<ssm, env, locals, i, j, k, log, calls, exc, heapVars, tabVars>>

\* lines 315-316: the handler's banner; an exception raised here leaves render
ErrorBanner ==
    /\ pc = "except"
    /\ \/ /\ out' = Append(out, ErrorCall(exc))
          /\ pc' = "log"
          /\ UNCHANGED <<escaped, raised>>
       \/ /\ escaped' = 316
          /\ raised' = Append(raised, 316)
          /\ pc' = "done"
          /\ UNCHANGED out
    /\ UNCHANGED <<ssm, env, locals, i, j, k, log, calls, exc, heapVars, tabVars>>

\* line 317: logging swallows the errors of its handlers; render returns
LogError ==
    /\ pc = "log"
    /\ log' = Append(log, LogEntry(exc))
    /\ pc' = "done"
    /\ UNCHANGED <<ssm, env, locals, i, j, k, out, calls, exc, escaped, raised, heapVars, tabVars>>

Next ==
    \/ Header
    \/ Intro
    \/ LoadKaizen
    \/ LoadTraining
    \/ LoadGlossary
    \/ Info
    \/ Tabs
    \/ EventsSubheader
    \/ EventsIntro
    \/ EventsWarning
    \/ EventsSort
    \/ EventBlockCall
    \/ TrainingSubheader
    \/ TrainingIntro
    \/ TrainingWarning
    \/ TrainingFrame
    \/ TrainingCardCall
    \/ GlossarySubheader
    \/ GlossaryIntro
    \/ GlossaryExpander
    \/ GlossaryTermCall
    \/ ErrorBanner
    \/ LogError

Spec == Init /\ [][Next]_vars

-----------------------------------------------------------------------------
(* The host calls render once per script run.  Between two runs the user   *)
(* may open another tab: st.tabs (line 234) hands render three containers  *)
(* and no word of which one is open, so the choice lives in selected and   *)
(* no statement of render reads it.  first keeps what the first call left  *)
(* behind, for the second call to be compared with.                        *)

InitTabs ==
    /\ ssm = "loaded session"
    /\ env \in TabEnvironments
    /\ pc = "header"
    /\ kaizen_events = <<>>
    /\ training_materials = <<>>
    /\ glossary = <<>>
    /\ df_events = <<>>
    /\ i = 0
    /\ j = 0
    /\ k = 0
    /\ out = <<>>
    /\ log = <<>>
    /\ calls = <<>>
    /\ exc = 0
    /\ escaped = 0
    /\ raised = <<>>
    /\ lists = <<>>
    /\ dicts = <<>>
    /\ returned = <<>>
    /\ mutations = 0
    /\ selected \in TabNames
    /\ pass = 1
    /\ first = <<>>

\* line 216, entered a second time: the user has opened another tab, the
\* script runs again and render starts with a new frame and an empty page
Rerun ==
    /\ pc = "done"
    /\ pass = 1
    /\ first' = [ selected |-> selected, ssm |-> ssm, env |-> env, out |-> out,
                  log |-> log, calls |-> calls, raised |-> raised,
                  escaped |-> escaped, df_events |-> df_events, at |-> << i, j, k >> ]
    /\ selected' \in TabNames \ { selected }
    /\ pass' = 2
    /\ pc' = "header"
    /\ kaizen_events' = <<>>
    /\ training_materials' = <<>>
    /\ glossary' = <<>>
    /\ df_events' = <<>>
    /\ i' = 0
    /\ j' = 0
    /\ k' = 0
    /\ out' = <<>>
    /\ log' = <<>>
    /\ calls' = <<>>
    /\ exc' = 0
    /\ escaped' = 0
    /\ raised' = <<>>
    /\ UNCHANGED <<ssm, env, heapVars>>

NextTabs ==
    \/ Next
    \/ Rerun

SpecTabs == InitTabs /\ [][NextTabs]_vars

-----------------------------------------------------------------------------
(* What the properties below read off a state.                             *)

Finished == pc = "done"

\* render returned to the host and no call raised on the way
CleanReturn == pc = "done" /\ raised = <<>>

CallsAt(line) == SelectSeq(out, LAMBDA c : c.line = line)

Banners == CallsAt(316)

\* the blocks of the Event Log, by the caption each block shows (line 250)
RenderedIds ==
    LET cs == CallsAt(250)
    IN  [ n \in 1..Len(cs) |-> cs[n].text[2] ]

RenderedDates ==
    LET cs == CallsAt(250)
    IN  [ n \in 1..Len(cs) |-> cs[n].text[4] ]

DistinctDates(rows) ==
    \A a, b \in 1..Len(rows) : a # b => rows[a].date # rows[b].date

StrictlyDescending(dates) ==
    \A n \in 1..(Len(dates) - 1) : StrLess(dates[n + 1], dates[n])

-----------------------------------------------------------------------------
\* C1: when the Kaizen-event provider raises (and it is the only call of the
\* render that does), render returns normally to the host, and during the call
\* exactly one error banner is displayed and exactly one log entry is emitted:
\* never more than one of each while the call runs, one of each once it ended.
C1_EventProviderFailureContained ==
    /\ (raised # <<>> /\ raised[1] = 229) => (Len(Banners) <= 1 /\ Len(log) <= 1)
    /\ (pc = "done" /\ raised = << 229 >>) =>
           (escaped = 0 /\ Len(Banners) = 1 /\ Len(log) = 1)

C1_Witness ==
    /\ pc = "done"
    /\ raised = << 229 >>
    /\ calls = << "get_overhauled_kaizen_data" >>
    /\ escaped = 0
    /\ Len(Banners) = 1
    /\ Len(log) = 1

\* C2: render never raises past its own boundary: whatever data-retrieval or
\* display call fails (the header, the introduction and the error banner
\* included), render ends by returning normally to the host.
C2_NeverRaisesPastBoundary == pc = "done" => escaped = 0

\* C3: for a non-empty list of events with pairwise distinct dates, the blocks
\* of the Event Log are issued in strictly descending order of the date field.
C3_DistinctDatesStrictlyDescending ==
    (env.kaizen # <<>> /\ DistinctDates(env.kaizen)) => StrictlyDescending(RenderedDates)

\* the provider's order was not descending, and every block was issued
C3_Witness ==
    /\ CleanReturn
    /\ Len(env.kaizen) >= 2
    /\ DistinctDates(env.kaizen)
    /\ ~ StrictlyDescending([ n \in 1..Len(env.kaizen) |-> env.kaizen[n].date ])
    /\ Len(RenderedDates) = Len(env.kaizen)
    /\ StrictlyDescending(RenderedDates)

\* C4: the provider's four events come in the order KZN-02, KZN-01, KZN-04,
\* KZN-03 (dates 2025-06-15, 2025-05-22, 2025-07-20, 2025-07-01), and a render
\* of them that does not fail issues the blocks in the order KZN-04, KZN-03,
\* KZN-02, KZN-01, dates 2025-07-20, 2025-07-01, 2025-06-15, 2025-05-22.
C4_SampleEventsOrder ==
    /\ [ n \in 1..Len(get_overhauled_kaizen_data) |-> get_overhauled_kaizen_data[n].id ]
           = << "KZN-02", "KZN-01", "KZN-04", "KZN-03" >>
    /\ [ n \in 1..Len(get_overhauled_kaizen_data) |-> get_overhauled_kaizen_data[n].date ]
           = << IsoDate(2025, 6, 15), IsoDate(2025, 5, 22),
                IsoDate(2025, 7, 20), IsoDate(2025, 7, 1) >>
    /\ (CleanReturn /\ env.kaizen = get_overhauled_kaizen_data) =>
           /\ RenderedIds = << "KZN-04", "KZN-03", "KZN-02", "KZN-01" >>
           /\ RenderedDates = << IsoDate(2025, 7, 20), IsoDate(2025, 7, 1),
                                 IsoDate(2025, 6, 15), IsoDate(2025, 5, 22) >>

C4_Witness ==
    /\ CleanReturn
    /\ env.kaizen = get_overhauled_kaizen_data
    /\ Len(CallsAt(246)) = 4
    /\ RenderedIds[1] = "KZN-04"

\* the placeholders of one tab (lines 242, 275)
WarningsIn(tab) == SelectSeq(out, LAMBDA c : c.op = "warning" /\ c.within = << tab >>)

EventsPanelAsUsual ==
    env.kaizen # <<>> =>
        (Len(CallsAt(246)) = Len(env.kaizen) /\ Len(WarningsIn("events_tab")) = 0)

TrainingPanelAsUsual ==
    env.training # <<>> =>
        (Len(CallsAt(279)) = Len(env.training) /\ Len(WarningsIn("training_tab")) = 0)

GlossaryPanelAsUsual ==
    env.glossary # <<>> =>
        (Len(CallsAt(307)) = Len(env.glossary) /\ Len(WarningsIn("glossary_tab")) = 0)

EmptyEventsPlaceholder ==
    (CleanReturn /\ env.kaizen = <<>>) =>
        /\ Len(WarningsIn("events_tab")) = 1
        /\ Len(CallsAt(246)) = 0
        /\ TrainingPanelAsUsual
        /\ GlossaryPanelAsUsual

EmptyTrainingPlaceholder ==
    (CleanReturn /\ env.training = <<>>) =>
        /\ Len(WarningsIn("training_tab")) = 1
        /\ Len(CallsAt(279)) = 0
        /\ EventsPanelAsUsual
        /\ GlossaryPanelAsUsual

EmptyGlossaryPlaceholder ==
    (CleanReturn /\ env.glossary = <<>>) =>
        /\ Len(WarningsIn("glossary_tab")) = 1
        /\ Len(CallsAt(307)) = 0
        /\ EventsPanelAsUsual
        /\ TrainingPanelAsUsual

\* C5: for each of the three providers, when it returns an empty collection
\* its panel shows one warning placeholder and no item block, and the other
\* two panels are rendered as usual (one block, card or section per item).
C5_EmptyCollectionPlaceholder ==
    /\ EmptyEventsPlaceholder
    /\ EmptyTrainingPlaceholder
    /\ EmptyGlossaryPlaceholder

\* what the code does with empty collections: the Event Log and the Training
\* Library show the placeholder; an empty glossary leaves its panel with no
\* section and no placeholder
EmptyPanelsAsCoded ==
    /\ EmptyEventsPlaceholder
    /\ EmptyTrainingPlaceholder
    /\ (CleanReturn /\ env.glossary = <<>>) =>
           /\ Len(WarningsIn("glossary_tab")) = 0
           /\ Len(CallsAt(307)) = 0
           /\ EventsPanelAsUsual
           /\ TrainingPanelAsUsual

-----------------------------------------------------------------------------
RECURSIVE Flatten(_)
Flatten(ss) == IF ss = <<>> THEN <<>> ELSE Head(ss) \o Flatten(Tail(ss))

IsPrefix(a, b) == Len(a) <= Len(b) /\ SubSeq(b, 1, Len(a)) = a

\* the calls the claim asks of one term record: name, definition, the formula
\* when the record has one, spacing; each as <<source line, text shown>>
ExpectedOfTerm(item) ==
    << << 309, item.term >>, << 310, item.definition >> >>
    \o (IF "formula" \in DOMAIN item THEN << << 312, item.formula >> >> ELSE <<>>)
    \o << << 313, "" >> >>

ExpectedOfGlossary(g) ==
    Flatten([ c \in 1..Len(g) |->
                Flatten([ t \in 1..Len(g[c].terms) |-> ExpectedOfTerm(g[c].terms[t]) ]) ])

\* the calls issued inside the category sections, as <<source line, text shown>>
IssuedTermCalls ==
    LET cs == SelectSeq(out, LAMBDA c : c.within = InCategory)
    IN  [ n \in 1..Len(cs) |-> << cs[n].line, cs[n].text[Len(cs[n].text)] >> ]

FormulaRecords(g) ==
    { ct \in UNION { { << c, t >> : t \in 1..Len(g[c].terms) } : c \in 1..Len(g) } :
        "formula" \in DOMAIN g[ct[1]].terms[ct[2]] }

\* C6: in the Glossary panel every term record with a formula field produces
\* exactly one formula-rendering call, after the term's definition and before
\* its spacing element; a record without one produces none; so the number of
\* formula-rendering calls of a render that does not fail is the number of
\* records that carry a formula.
C6_FormulaCalls ==
    /\ IsPrefix(IssuedTermCalls, ExpectedOfGlossary(env.glossary))
    /\ CleanReturn =>
           /\ IssuedTermCalls = ExpectedOfGlossary(env.glossary)
           /\ Len(CallsAt(312)) = Cardinality(FormulaRecords(env.glossary))

\* a category whose first record has no formula and whose second has one
C6_Witness ==
    /\ CleanReturn
    /\ Len(CallsAt(312)) = 1
    /\ \E c \in 1..Len(env.glossary) :
           env.glossary[c].terms = << PlainTerm, FormulaTerm >>

-----------------------------------------------------------------------------
IssuedCategories ==
    LET cs == CallsAt(307)
    IN  [ n \in 1..Len(cs) |-> cs[n].text[2] ]

IssuedExpanded ==
    LET cs == CallsAt(307)
    IN  [ n \in 1..Len(cs) |-> cs[n].kw.expanded ]

GlossaryCategories(g) == [ n \in 1..Len(g) |-> g[n].category ]

\* C7 as claimed: one section per category in insertion order, the first one
\* issued expanded and every other one collapsed.
C7_FirstCategoryExpanded ==
    /\ IsPrefix(IssuedCategories, GlossaryCategories(env.glossary))
    /\ \A n \in 1..Len(IssuedExpanded) : IssuedExpanded[n] = (n = 1)

\* C7 as amended: one section per category in insertion order; the section of
\* the category named "Lean Principles" is expanded, wherever it stands, and
\* every other one is collapsed; in the shipped glossary that category is the
\* first of "Lean Principles", "Six Sigma Concepts", "Statistical & Analytical
\* Methods", "AI/ML for Operations", so the first is expanded and the other
\* three are collapsed.
C7_LeanPrinciplesExpanded ==
    /\ IsPrefix(IssuedCategories, GlossaryCategories(env.glossary))
    /\ CleanReturn => IssuedCategories = GlossaryCategories(env.glossary)
    /\ \A n \in 1..Len(IssuedExpanded) :
           IssuedExpanded[n] = (IssuedCategories[n] = "Lean Principles")
    /\ GlossaryCategories(get_glossary_content) =
           << "Lean Principles", "Six Sigma Concepts",
              "Statistical & Analytical Methods", "AI/ML for Operations" >>
    /\ (CleanReturn /\ env.glossary = get_glossary_content) =>
           IssuedExpanded = << TRUE, FALSE, FALSE, FALSE >>

\* "Lean Principles" stands second: the first section is collapsed, the second expanded
C7_Witness ==
    /\ CleanReturn
    /\ Len(IssuedCategories) = 2
    /\ IssuedCategories[2] = "Lean Principles"
    /\ IssuedExpanded = << FALSE, TRUE >>

-----------------------------------------------------------------------------
Cards == CallsAt(279)

\* card n shows material m: its icon, its title, and one list item per
\* learning objective, in the order of the array
CardShows(card, m) ==
    /\ card.text[2] = m.icon
    /\ card.text[3] = m.title
    /\ Len(card.text[8]) = Len(m.learning_objectives)
    /\ \A o \in 1..Len(m.learning_objectives) :
           card.text[8][o] = << "<li>{obj}</li>", m.learning_objectives[o] >>

\* C8: a render that does not fail issues exactly one card per training
\* material, in provider order (TRN-101 .. TRN-105, five cards, for the shipped
\* data); each card holds the material's title and icon and as many
\* learning-objective items as the material has objectives, in the same order.
C8_OneCardPerMaterial ==
    /\ Len(Cards) <= Len(env.training)
    /\ \A n \in 1..Len(Cards) : CardShows(Cards[n], env.training[n])
    /\ CleanReturn => Len(Cards) = Len(env.training)
    /\ [ n \in 1..Len(get_overhauled_training_data) |-> get_overhauled_training_data[n].id ]
           = << "TRN-101", "TRN-102", "TRN-103", "TRN-104", "TRN-105" >>
    /\ (CleanReturn /\ env.training = get_overhauled_training_data) =>
           /\ Len(Cards) = 5
           /\ \A n \in 1..5 : Len(Cards[n].text[8]) = 4

C8_Witness ==
    /\ CleanReturn
    /\ env.training = get_overhauled_training_data
    /\ Len(Cards) = 5
    /\ Cards[1].text[3] = "A3 Thinking: The Art of Problem Solving on a Single Page"
    /\ Len(Cards[1].text[8]) = 4

-----------------------------------------------------------------------------
-----------------------------------------------------------------------------
\* lines 229-231: the provider calls of one render, in statement order
ProviderOrder ==
    << "get_overhauled_kaizen_data", "get_overhauled_training_data", "get_glossary_content" >>

ProviderLines == { 229, 230, 231 }

\* the tab container (line 234) and everything issued into a panel (lines 238-313)
PanelCalls == SelectSeq(out, LAMBDA c : c.line >= 234 /\ c.line <= 313)

\* C12 as stated: in each render call each of the three providers is invoked
\* exactly once, in the order event, training, glossary.
C12_EachProviderOncePerRender == pc = "done" => calls = ProviderOrder

\* C12: in each render call the providers are invoked in the order event,
\* training, glossary, each at most once and none after one of them (or the
\* header or the introduction) raised; a render in which no call up to the
\* glossary provider raises invokes each exactly once.  All three calls have
\* returned before the tab container is created and before any panel item is
\* issued, so if any provider raises, no tab, event block, training card or
\* glossary section is issued in that render.
C12_ProvidersBeforePanels ==
    /\ IsPrefix(calls, ProviderOrder)
    /\ (pc = "done" /\ (raised = <<>> \/ raised[1] > 231)) => calls = ProviderOrder
    /\ PanelCalls # <<>> =>
           /\ calls = ProviderOrder
           /\ \A n \in 1..Len(raised) : raised[n] \notin ProviderLines
           /\ kaizen_events = env.kaizen
           /\ training_materials = env.training
           /\ glossary = env.glossary
    /\ (\E n \in 1..Len(raised) : raised[n] \in ProviderLines) =>
           /\ PanelCalls = <<>>
           /\ Len(calls) = raised[1] - 228

\* the training provider raised: the glossary provider was never called and
\* nothing but the header, the introduction and the banner is on the page
C12_Witness ==
    /\ pc = "done"
    /\ raised = << 230 >>
    /\ calls = << "get_overhauled_kaizen_data", "get_overhauled_training_data" >>
    /\ PanelCalls = <<>>
    /\ out = << HeaderCall, IntroCall, ErrorCall(230) >>

-----------------------------------------------------------------------------
\* one call of the render raised, and it is a call inside the try block
GuardedFailure == Len(raised) = 1 /\ raised[1] >= 229

\* C13: if a call inside the guarded part of a render raises (and it is the
\* only call of the render that does): every display call issued before the
\* failure stays issued; nothing is issued after it but the error banner, so
\* no further event block, training card, glossary section or term; exactly
\* one banner, whose text embeds the description of the failure, is displayed
\* and it is the last display call of the render; and exactly one log entry,
\* with the same description, is emitted after the banner.
C13_GuardedFailureHandled ==
    /\ [](GuardedFailure => (escaped = 0 /\ Len(Banners) <= 1 /\ Len(log) <= 1))
    /\ []((pc = "done" /\ GuardedFailure) =>
             /\ Len(Banners) = 1
             /\ out[Len(out)] = ErrorCall(raised[1])
             /\ log = << LogEntry(raised[1]) >>)
    /\ [][ raised' # raised => out' = out ]_vars
    /\ [][ raised # <<>> => (out' = out \/ out' = Append(out, ErrorCall(raised[1]))) ]_vars
    /\ [][ log' # log => (out' = out /\ Len(Banners) = 1 /\ out[Len(out)].line = 316) ]_vars

\* the failure came in the middle of an event block, after a complete one
C13_Witness ==
    /\ pc = "done"
    /\ raised = << 258 >>
    /\ Len(CallsAt(267)) = 1
    /\ Len(CallsAt(257)) = 2
    /\ Len(CallsAt(271)) = 0
    /\ out[Len(out)] = ErrorCall(258)
    /\ log = << LogEntry(258) >>

-----------------------------------------------------------------------------
\* the items of an event block, in the order they are to appear: the function
\* that displays each and the fixed part of its text
BlockItems ==
    << [ op |-> "markdown", text |-> "#### {title}" ],
       [ op |-> "caption",
         text |-> "**A3 ID:** {id} | **Site:** {site} | **Completion Date:** {date}" ],
       [ op |-> "button", text |-> "View Full A3 Report" ],
       [ op |-> "markdown", text |-> "**Problem Background:**" ],
       [ op |-> "markdown", text |-> "> {problem_background}" ],
       [ op |-> "expander", text |-> "**View Detailed Analysis & Countermeasures**" ],
       [ op |-> "markdown", text |-> "{analysis_and_countermeasures}" ],
       [ op |-> "caption",
         text |-> "_Detailed schematics, raw data, and financial models are redacted from this view and available in the full A3 report._" ],
       [ op |-> "success", text |-> "{quantified_results}" ],
       [ op |-> "info", text |-> "{key_insight}" ],
       [ op |-> "write", text |-> "" ] >>

Item(c) == [ op |-> c.op, text |-> c.text[1] ]

\* the calls issued into the Event Log that display one of these items
IssuedBlockItems ==
    SelectSeq(out, LAMBDA c : /\ c.within # <<>>
                              /\ c.within[1] = "events_tab"
                              /\ c.text # <<>>
                              /\ Item(c) \in { BlockItems[n] : n \in 1..Len(BlockItems) })

\* what item n of a block shows of event e
ItemShows(c, n, e) ==
    CASE n = 1 -> c.text[2] = e.title
      [] n = 2 -> << c.text[2], c.text[3], c.text[4] >> = << e.id, e.site, e.date >>
      [] n = 5 -> c.text[2] = e.problem_background
      [] n = 7 -> c.text[2] = e.analysis_and_countermeasures /\ c.within[Len(c.within)] = "expander"
      [] n = 8 -> c.within[Len(c.within)] = "expander"
      [] n = 9 -> c.text[2] = e.quantified_results
      [] n = 10 -> c.text[2] = e.key_insight
      [] OTHER -> TRUE

\* C14: every event block issues its display calls in this order: title,
\* metadata line (id, site, date), "view full report" button, problem-background
\* heading and block-quoted problem statement, collapsible section holding the
\* analysis text followed by the disclaimer caption, success-styled results
\* line, info-styled key-insight line, then one spacing element; all items of
\* a block show the same event; and the button is disabled in every block of
\* every render.
C14_EventBlockOrder ==
    LET items == IssuedBlockItems
        len == Len(BlockItems)
    IN  /\ \A n \in 1..Len(items) : Item(items[n]) = BlockItems[((n - 1) % len) + 1]
        /\ \A b \in 0..((Len(items) - 1) \div len) :
               \E r \in 1..Len(env.kaizen) :
                   \A n \in 1..len :
                       (b * len + n <= Len(items)) =>
                           ItemShows(items[b * len + n], n, env.kaizen[r])
        /\ \A n \in 1..Len(out) : out[n].op = "button" => out[n].kw.disabled = TRUE

\* two complete blocks
C14_Witness ==
    /\ CleanReturn
    /\ Len(env.kaizen) = 2
    /\ Len(IssuedBlockItems) = 2 * Len(BlockItems)
    /\ Len(CallsAt(252)) = 2
    /\ \A n \in 1..2 : CallsAt(252)[n].kw.disabled = TRUE

-----------------------------------------------------------------------------
DistinctIds(rows) ==
    \A a, b \in 1..Len(rows) : a # b => rows[a].id # rows[b].id

\* the widget keys of the buttons issued so far (line 252), in order
IssuedKeys ==
    LET cs == CallsAt(252)
    IN  [ n \in 1..Len(cs) |-> cs[n].kw.key ]

\* C15: the identifiers of the provider's events are pairwise distinct, and
\* in every state of a render over events with pairwise distinct identifiers
\* the widget keys "report_<id>" of the buttons issued so far are pairwise
\* distinct: no two buttons share a key, so the Event Log never meets the
\* condition of a duplicate-key failure.
C15_ButtonKeysDistinct ==
    /\ DistinctIds(get_overhauled_kaizen_data)
    /\ DistinctIds(env.kaizen) =>
           LET keys == IssuedKeys
           IN  \A a, b \in 1..Len(keys) : a # b => keys[a] # keys[b]

\* the four buttons of the provider's events
C15_Witness ==
    /\ CleanReturn
    /\ env.kaizen = get_overhauled_kaizen_data
    /\ IssuedKeys = << << "report_{id}", "KZN-04" >>, << "report_{id}", "KZN-03" >>,
                       << "report_{id}", "KZN-02" >>, << "report_{id}", "KZN-01" >> >>

-----------------------------------------------------------------------------
\* what the metadata line of each block shows (line 250): id, site and date
ShownEvents ==
    LET cs == CallsAt(250)
    IN  [ n \in 1..Len(cs) |-> << cs[n].text[2], cs[n].text[3], cs[n].text[4] >> ]

Shown(e) == << e.id, e.site, e.date >>

\* C16: sorting neither drops nor duplicates events: in a render that does
\* not fail over a non-empty event list, the sequence of rendered blocks is a
\* permutation of the provider's list (each event is rendered in exactly one
\* block, and there are as many blocks as events), also when several events
\* share one date.
C16_BlocksArePermutation ==
    (CleanReturn /\ env.kaizen # <<>>) =>
        LET shown == ShownEvents
            len == Len(env.kaizen)
        IN  /\ Len(CallsAt(246)) = len
            /\ Len(CallsAt(267)) = len
            /\ Len(shown) = len
            /\ \E p \in Perms(len) : \A n \in 1..len : shown[n] = Shown(env.kaizen[p[n]])

\* two events of one date, each in a block of its own
C16_Witness ==
    /\ CleanReturn
    /\ Len(env.kaizen) = 2
    /\ env.kaizen[1].date = env.kaizen[2].date
    /\ Len(CallsAt(267)) = 2
    /\ { RenderedIds[1], RenderedIds[2] } = { "EVT-1", "EVT-2" }

-----------------------------------------------------------------------------
\* the second call met what the first call met: the same calls raised, in
\* the same turn of the loops, and where both calls sorted the events the
\* sort of line 244 put rows of equal date in the same order
SameRun ==
    /\ raised = first.raised
    /\ << i, j, k >> = first.at
    /\ (df_events # <<>> /\ first.df_events # <<>>) => df_events = first.df_events

\* C11: opening another tab changes what is displayed and nothing else: two
\* calls of render that differ only in the tab the user has open call the
\* providers identically and issue the same sequence of display calls into
\* all three panels (and the same log entries), and the data held by the
\* module and by the host is the same after both.
C11_TabSelectionDisplayOnly ==
    (pass = 2 /\ pc = "done" /\ SameRun) =>
        /\ selected # first.selected
        /\ calls = first.calls
        /\ out = first.out
        /\ log = first.log
        /\ escaped = first.escaped
        /\ ssm = first.ssm
        /\ env = first.env

\* both calls went through all three panels, with different tabs open
C11_Witness ==
    /\ pass = 2
    /\ pc = "done"
    /\ raised = <<>>
    /\ first.raised = <<>>
    /\ first.selected = "events_tab"
    /\ selected = "glossary_tab"
    /\ Len(CallsAt(246)) = 2
    /\ Len(CallsAt(279)) = 1
    /\ Len(CallsAt(307)) = 1
    /\ out = first.out

-----------------------------------------------------------------------------
(* The providers as their callers see them across calls.  A provider's     *)
(* body is a list display of dict displays: each call builds a new list    *)
(* object holding new dict objects.  A caller may change, in place, any    *)
(* object it was given.  lists and dicts are the objects by reference.     *)

MaxCalls == 2

MaxMutations == 2

Providers == { "get_overhauled_kaizen_data", "get_overhauled_training_data",
               "get_glossary_content" }

Literal(provider) ==
    CASE provider = "get_overhauled_kaizen_data" -> get_overhauled_kaizen_data
      [] provider = "get_overhauled_training_data" -> get_overhauled_training_data
      [] provider = "get_glossary_content" -> get_glossary_content

\* the value of list object r: its items' records, in order
ValueIn(ls, ds, r) == [ n \in 1..Len(ls[r].items) |-> ds[ls[r].items[n]] ]

InitProviders ==
    /\ ssm = "empty session"
    /\ env = [ kaizen |-> get_overhauled_kaizen_data,
               training |-> get_overhauled_training_data,
               glossary |-> get_glossary_content ]
    /\ pc = "host"
    /\ kaizen_events = <<>>
    /\ training_materials = <<>>
    /\ glossary = <<>>
    /\ df_events = <<>>
    /\ i = 0
    /\ j = 0
    /\ k = 0
    /\ out = <<>>
    /\ log = <<>>
    /\ calls = <<>>
    /\ exc = 0
    /\ escaped = 0
    /\ raised = <<>>
    /\ lists = <<>>
    /\ dicts = <<>>
    /\ returned = <<>>
    /\ mutations = 0
    /\ selected = "events_tab"
    /\ pass = 1
    /\ first = <<>>

\* a provider that returns one module-level list instead of building it anew
CallProviderShared ==
    /\ Len(returned) < MaxCalls
    /\ \E p \in Providers :
        IF \E r \in DOMAIN lists : lists[r].provider = p
        THEN LET r == CHOOSE q \in DOMAIN lists : lists[q].provider = p
             IN  /\ returned' = Append(returned,
                                       [ provider |-> p, value |-> ValueIn(lists, dicts, r) ])
                 /\ UNCHANGED <<lists, dicts>>
        ELSE LET lit == Literal(p)
                 base == Len(dicts)
             IN  /\ dicts' = dicts \o lit
                 /\ lists' = Append(lists, [ provider |-> p,
                                             items |-> [ n \in 1..Len(lit) |-> base + n ] ])
                 /\ returned' = Append(returned,
                                       [ provider |-> p,
                                         value |-> ValueIn(lists', dicts', Len(lists')) ])
    /\ UNCHANGED <<mutations, renderVars, tabVars>>

\* lines 34-100, 102-168, 170-212: one call of a provider
CallProvider ==
    /\ Len(returned) < MaxCalls
    /\ \E p \in Providers :
        LET lit == Literal(p)
            base == Len(dicts)
        IN  /\ dicts' = dicts \o lit
            /\ lists' = Append(lists, [ provider |-> p,
                                        items |-> [ n \in 1..Len(lit) |-> base + n ] ])
            /\ returned' = Append(returned,
                                  [ provider |-> p,
                                    value |-> ValueIn(lists', dicts', Len(lists')) ])
    /\ UNCHANGED <<mutations, renderVars, tabVars>>

Reverse(q) == [ n \in 1..Len(q) |-> q[Len(q) + 1 - n] ]

\* a caller reorders a list it was given (list.reverse())
Reorder ==
    /\ mutations < MaxMutations
    /\ \E r \in DOMAIN lists :
        /\ Len(lists[r].items) >= 2
        /\ lists' = [ lists EXCEPT ![r].items = Reverse(@) ]
    /\ mutations' = mutations + 1
    /\ UNCHANGED <<dicts, returned, renderVars, tabVars>>

ExtraRecord(provider) ==
    CASE provider = "get_overhauled_kaizen_data" -> MkEvent(1, IsoDate(2025, 1, 9))
      [] provider = "get_overhauled_training_data" -> MkMaterial(1, 1)
      [] provider = "get_glossary_content" -> [ category |-> "Extra", terms |-> <<>> ]

\* a caller extends a list it was given (list.append(record))
Extend ==
    /\ mutations < MaxMutations
    /\ \E r \in DOMAIN lists :
        /\ dicts' = Append(dicts, ExtraRecord(lists[r].provider))
        /\ lists' = [ lists EXCEPT ![r].items = Append(@, Len(dicts) + 1) ]
    /\ mutations' = mutations + 1
    /\ UNCHANGED <<returned, renderVars, tabVars>>

Edited(record) ==
    IF "id" \in DOMAIN record
    THEN [ record EXCEPT !.id = "EDITED" ]
    ELSE [ record EXCEPT !.category = "EDITED" ]

\* a caller edits a record of a list it was given (record['id'] = ...)
EditRecord ==
    /\ mutations < MaxMutations
    /\ \E d \in DOMAIN dicts :
        /\ Edited(dicts[d]) # dicts[d]
        /\ dicts' = [ dicts EXCEPT ![d] = Edited(@) ]
    /\ mutations' = mutations + 1
    /\ UNCHANGED <<lists, returned, renderVars, tabVars>>

NextProviders ==
    \/ CallProvider
    \/ Reorder
    \/ Extend
    \/ EditRecord

SpecProviders == InitProviders /\ [][NextProviders]_vars

\* C10: the providers are deterministic and free of side effects over any
\* sequence of calls: each call returns a list structurally identical to the
\* one every other call of the same provider returned (the literal of its
\* body), also after a caller reordered, extended or edited what an earlier
\* call returned; and a call changes no object that existed before it.
C10_ProvidersDeterministic ==
    /\ [](\A a \in DOMAIN returned :
            /\ returned[a].value = Literal(returned[a].provider)
            /\ \A b \in DOMAIN returned :
                 returned[a].provider = returned[b].provider =>
                     returned[a].value = returned[b].value)
    /\ [][ Len(returned') > Len(returned) =>
             /\ \A r \in DOMAIN lists : lists'[r] = lists[r]
             /\ \A d \in DOMAIN dicts : dicts'[d] = dicts[d] ]_vars

\* a caller extended the list of a first call, and then the provider was called again
C10_Witness ==
    /\ Len(returned) = 2
    /\ returned[1].provider = returned[2].provider
    /\ Len(lists[1].items) = Len(Literal(returned[1].provider)) + 1
    /\ \A n \in DOMAIN lists[1].items : lists[1].items[n] < lists[2].items[1]
    /\ ValueIn(lists, dicts, 1) # returned[1].value
    /\ returned[2].value = returned[1].value

=============================================================================
